---- MODULE Spec2Model ----
(***************************************************************************)
(* Claim decision engine of the insurance-claims system:                   *)
(*   - the file-backed review queue of human_review_agent.py, driven by    *)
(*     concurrent Streamlit sessions (SpecQueue);                          *)
(*   - the rule-based evaluator check_claim_eligibility of backup.py as a  *)
(*     pure operator over bounded inputs (SpecEval);                       *)
(*   - the two orchestrators: the sequential script of backup.py and the   *)
(*     executor pipeline of workflow_visualizer_agentic.py (SpecOrch).     *)
(* Scores (confidence, ambiguity) are kept in quarter points so that the   *)
(* halves and quarters the code's divisions produce stay exact.            *)
(***************************************************************************)
EXTENDS Integers, Sequences, FiniteSets, TLC

VARIABLES
    queue_file,     \* contents of review_queue.json: a list of review records
    history_file,   \* contents of review_history.json
    audit_store,    \* audit blobs, one per blob name
    now,            \* wall clock in whole seconds (strftime('%Y%m%d%H%M%S'))
    pc,             \* per session: position inside the running queue call
    lq,             \* per session: the list returned by _load_queue
    lh,             \* per session: the list read by _add_to_history
    rec,            \* per session: the record / arguments of the running call
    outcome,        \* per session: what the last finished call returned
    flagged,        \* claims whose flag_for_review call has returned
    nFlag,          \* flag_for_review calls started
    nSub,           \* submit_review_decision calls started
    ev_in,          \* the arguments of one check_claim_eligibility call
    ev_out,         \* what the call returned or raised
    ai_calls,       \* requests the call sent to the exclusion model
    orchestrator,   \* which script processes the claim: "backup" | "agentic"
    o_pc,           \* the orchestrator's position in its run
    o_in,           \* the claim and policy data the run works on
    validation_result,      \* what the policy validation step produced
    eligibility_analysis,   \* the eligibility step's result
    review_needed,  \* backup.py: the local needs_review of main
    fraud_analysis, \* the fraud step's result
    data,           \* agentic: the flags of the dictionary passed along
    session_state,  \* st.session_state entries the run writes
    steps_run,      \* the steps that have taken effect, in order
    audit_trail,    \* the agents of the log calls the run has made, in order
    disk,           \* review_queue.json as text: "whole" document or "torn"
    passed,         \* the records flag_for_review has returned, in order
    listed,         \* what the last get_pending_reviews call returned
    raised,         \* the exception the last queue call of the process raised
    killed,         \* a process has died inside _save_queue
    stats,          \* what the last get_review_statistics call returned
    nr_in,          \* the arguments of one needs_review call
    nr_out,         \* what the call returned
    sc_in,          \* one scoring request: script, probability, threshold
    sc_out,         \* the prediction entry the script's run() produced
    n_logged        \* log calls of the audit agent that have returned True

qvars == <<queue_file, history_file, audit_store, now, pc, lq, lh, rec,
           outcome, flagged, nFlag, nSub>>

evars == <<ev_in, ev_out, ai_calls>>

ovars == <<orchestrator, o_pc, o_in, validation_result, eligibility_analysis,
           review_needed, fraud_analysis, data, session_state, steps_run,
           audit_trail>>

svars == <<disk, passed, listed, raised, killed, stats>>

rvars == <<nr_in, nr_out>>

cvars == <<sc_in, sc_out>>

avars == <<n_logged>>

vars == <<qvars, evars, ovars, svars, rvars, cvars, avars>>

\* ---------------------------------------------------------------- bounds
NumSessions == 2
MaxClock == 1
MaxFlags == 2
MaxSubmits == 2

Sessions == 1..NumSessions
Decisions == {"APPROVE", "REJECT"}

NULL == "null"
Absent == "absent"

\* ------------------------------------------------- human_review_agent.py
\* n percentage points, in quarter points
Pct(n) == 4 * n

confidence_threshold == Pct(50)

\* the analysis results handed to flag_for_review by the callers
QueueAnalyses ==
    { [eligibility_decision |-> "ELIGIBLE", confidence_score |-> Pct(40)],
      [eligibility_decision |-> "ERROR", confidence_score |-> 0] }

\* review_id = f"REV-{now:%Y%m%d%H%M%S}": a function of the second only
ReviewId(t) == t

NewReviewRecord(t, claim_data, analysis_result, reason) ==
    [ review_id |-> ReviewId(t),
      status |-> "pending",
      claim_data |-> claim_data,
      analysis_result |-> analysis_result,
      flag_reason |-> reason,
      confidence_score |-> analysis_result.confidence_score,
      final_decision |-> NULL,
      reviewed_by |-> NULL,
      review_date |-> NULL ]

\* index of the first record of q carrying review_id id, 0 if there is none
FirstMatch(q, id) ==
    IF \E i \in 1..Len(q) : q[i].review_id = id
    THEN CHOOSE i \in 1..Len(q) :
            /\ q[i].review_id = id
            /\ \A j \in 1..(i - 1) : q[j].review_id # id
    ELSE 0

Reviewed(r, decision, reviewer, t) ==
    [r EXCEPT !.status = "reviewed",
              !.final_decision = decision,
              !.reviewed_by = reviewer,
              !.review_date = t]

\* the blob a log call writes: {date}/{policy}/{agent}_{second}.json,
\* uploaded with overwrite=True
AuditWrite(store, agent, policy, t, event) ==
    { b \in store : ~(b.agent = agent /\ b.policy = policy /\ b.ts = t) }
        \cup { [agent |-> agent, policy |-> policy, ts |-> t, event |-> event] }

PolicyNumberOf(claim_data) ==
    IF claim_data.policy_number = Absent THEN "UNKNOWN"
    ELSE claim_data.policy_number

\* the claims the sessions submit are distinct: the k-th one names policy k
PolicyNames == <<"POL1", "POL2", "POL3", "POL4", "POL5", "POL6">>

NoCall == [op |-> "none"]

InitQueue ==
    /\ queue_file = <<>>
    /\ history_file = <<>>
    /\ audit_store = {}
    /\ n_logged = 0
    /\ now = 0
    /\ pc = [p \in Sessions |-> "idle"]
    /\ lq = [p \in Sessions |-> <<>>]
    /\ lh = [p \in Sessions |-> <<>>]
    /\ rec = [p \in Sessions |-> NoCall]
    /\ outcome = [p \in Sessions |-> NoCall]
    /\ flagged = {}
    /\ nFlag = 0
    /\ nSub = 0

\* the clock advances to the next second
Tick ==
    /\ now < MaxClock
    /\ now' = now + 1
    /\ UNCHANGED <<queue_file, history_file, audit_store, pc, lq, lh, rec,
                   outcome, flagged, nFlag, nSub>>
    /\ UNCHANGED <<evars, ovars, svars, rvars, cvars, avars>>

\* flag_for_review up to and including _load_queue inside _add_to_queue
FlagLoad(p) ==
    /\ pc[p] = "idle"
    /\ nFlag < MaxFlags
    /\ \E a \in QueueAnalyses :
         rec' = [rec EXCEPT ![p] =
                    NewReviewRecord(now, [policy_number |-> PolicyNames[nFlag + 1]], a,
                                    "Low AI confidence")]
    /\ lq' = [lq EXCEPT ![p] = queue_file]
    /\ pc' = [pc EXCEPT ![p] = "flag_loaded"]
    /\ nFlag' = nFlag + 1
    /\ UNCHANGED <<queue_file, history_file, audit_store, now, lh, outcome,
                   flagged, nSub>>
    /\ UNCHANGED <<evars, ovars, svars, rvars, cvars, avars>>

\* queue.append(review_record); _save_queue(queue); return review_record
FlagSave(p) ==
    /\ pc[p] = "flag_loaded"
    /\ queue_file' = Append(lq[p], rec[p])
    /\ outcome' = [outcome EXCEPT ![p] =
                      [op |-> "flag", result |-> "ok", record |-> rec[p]]]
    /\ flagged' = flagged \cup {rec[p].claim_data.policy_number}
    /\ pc' = [pc EXCEPT ![p] = "idle"]
    /\ rec' = [rec EXCEPT ![p] = NoCall]
    /\ lq' = [lq EXCEPT ![p] = <<>>]
    /\ UNCHANGED <<history_file, audit_store, now, lh, nFlag, nSub>>
    /\ UNCHANGED <<evars, ovars, svars, rvars, cvars, avars>>

\* submit_review_decision: queue = self._load_queue()
SubmitLoad(p) ==
    /\ pc[p] = "idle"
    /\ nSub < MaxSubmits
    /\ \E id \in 0..MaxClock, d \in Decisions :
         rec' = [rec EXCEPT ![p] =
                    [op |-> "submit", review_id |-> ReviewId(id),
                     decision |-> d, reviewer_name |-> p]]
    /\ lq' = [lq EXCEPT ![p] = queue_file]
    /\ pc' = [pc EXCEPT ![p] = "sub_loaded"]
    /\ nSub' = nSub + 1
    /\ UNCHANGED <<queue_file, history_file, audit_store, now, lh, outcome,
                   flagged, nFlag>>
    /\ UNCHANGED <<evars, ovars, svars, rvars, cvars, avars>>

\* the loop over the loaded queue: the first record with the id is rewritten
\* and the queue saved; with no such record ValueError is raised
SubmitSave(p) ==
    /\ pc[p] = "sub_loaded"
    /\ LET i == FirstMatch(lq[p], rec[p].review_id) IN
         IF i = 0
         THEN /\ outcome' = [outcome EXCEPT ![p] =
                    [op |-> "submit", result |-> "ValueError",
                     review_id |-> rec[p].review_id,
                     decision |-> rec[p].decision, found |-> "none"]]
              /\ pc' = [pc EXCEPT ![p] = "idle"]
              /\ rec' = [rec EXCEPT ![p] = NoCall]
              /\ lq' = [lq EXCEPT ![p] = <<>>]
              /\ UNCHANGED queue_file
         ELSE LET r == Reviewed(lq[p][i], rec[p].decision,
                                rec[p].reviewer_name, now) IN
              /\ queue_file' = [lq[p] EXCEPT ![i] = r]
              /\ rec' = [rec EXCEPT ![p] =
                    [op |-> "submit", review_id |-> rec[p].review_id,
                     decision |-> rec[p].decision,
                     reviewer_name |-> rec[p].reviewer_name,
                     record |-> r, found |-> lq[p][i].status]]
              /\ pc' = [pc EXCEPT ![p] = "sub_saved"]
              /\ lq' = [lq EXCEPT ![p] = <<>>]
              /\ UNCHANGED outcome
    /\ UNCHANGED <<history_file, audit_store, now, lh, flagged, nFlag, nSub>>
    /\ UNCHANGED <<evars, ovars, svars, rvars, cvars, avars>>

\* _add_to_history: read review_history.json
SubmitHistLoad(p) ==
    /\ pc[p] = "sub_saved"
    /\ lh' = [lh EXCEPT ![p] = history_file]
    /\ pc' = [pc EXCEPT ![p] = "sub_hist_loaded"]
    /\ UNCHANGED <<queue_file, history_file, audit_store, now, lq, rec,
                   outcome, flagged, nFlag, nSub>>
    /\ UNCHANGED <<evars, ovars, svars, rvars, cvars, avars>>

\* _add_to_history: append and write; then the audit call inside try/except
\* (the write may fail, which is swallowed); return record
SubmitHistSave(p) ==
    /\ pc[p] = "sub_hist_loaded"
    /\ history_file' = Append(lh[p], rec[p].record)
    /\ \E logged \in BOOLEAN :
         /\ audit_store' =
               IF logged
               THEN AuditWrite(audit_store, "HumanReviewAgent",
                               PolicyNumberOf(rec[p].record.claim_data), now,
                               [decision |-> rec[p].decision,
                                review_id |-> rec[p].review_id])
               ELSE audit_store
         /\ n_logged' = IF logged THEN n_logged + 1 ELSE n_logged
    /\ outcome' = [outcome EXCEPT ![p] =
                      [op |-> "submit", result |-> "ok",
                       review_id |-> rec[p].review_id,
                       decision |-> rec[p].decision,
                       found |-> rec[p].found]]
    /\ pc' = [pc EXCEPT ![p] = "idle"]
    /\ rec' = [rec EXCEPT ![p] = NoCall]
    /\ lh' = [lh EXCEPT ![p] = <<>>]
    /\ UNCHANGED <<queue_file, now, lq, flagged, nFlag, nSub>>
    /\ UNCHANGED <<evars, ovars, svars, rvars, cvars>>

NextQueue ==
    \/ Tick
    \/ \E p \in Sessions : FlagLoad(p)
    \/ \E p \in Sessions : FlagSave(p)
    \/ \E p \in Sessions : SubmitLoad(p)
    \/ \E p \in Sessions : SubmitSave(p)
    \/ \E p \in Sessions : SubmitHistLoad(p)
    \/ \E p \in Sessions : SubmitHistSave(p)

\* ------------------------------ scripts that write review_queue.json
\* clear_pending_reviews.py: json.dump([], f) whether or not the file exists
ClearPendingReviews ==
    /\ queue_file' = <<>>
    /\ UNCHANGED <<history_file, audit_store, now, pc, lq, lh, rec, outcome,
                   flagged, nFlag, nSub>>
    /\ UNCHANGED <<evars, ovars, svars, rvars, cvars, avars>>

\* test_human_review_agent, after its flag_for_review and get_pending_reviews
\* calls: the cleanup reads the queue file
CleanupLoad(p) ==
    /\ pc[p] = "idle"
    /\ outcome[p].op = "flag"
    /\ rec' = [rec EXCEPT ![p] =
                  [op |-> "cleanup", review_id |-> outcome[p].record.review_id]]
    /\ lq' = [lq EXCEPT ![p] = queue_file]
    /\ pc' = [pc EXCEPT ![p] = "cleanup_loaded"]
    /\ UNCHANGED <<queue_file, history_file, audit_store, now, lh, outcome,
                   flagged, nFlag, nSub>>
    /\ UNCHANGED <<evars, ovars, svars, rvars, cvars, avars>>

\* queue = [r for r in queue if r['review_id'] != review_record['review_id']]
\* and the write of the filtered list
CleanupSave(p) ==
    /\ pc[p] = "cleanup_loaded"
    /\ queue_file' = SelectSeq(lq[p], LAMBDA r : r.review_id # rec[p].review_id)
    /\ outcome' = [outcome EXCEPT ![p] =
                      [op |-> "cleanup", result |-> "ok",
                       review_id |-> rec[p].review_id]]
    /\ pc' = [pc EXCEPT ![p] = "idle"]
    /\ rec' = [rec EXCEPT ![p] = NoCall]
    /\ lq' = [lq EXCEPT ![p] = <<>>]
    /\ UNCHANGED <<history_file, audit_store, now, lh, flagged, nFlag, nSub>>
    /\ UNCHANGED <<evars, ovars, svars, rvars, cvars, avars>>

NextRepo ==
    \/ NextQueue
    \/ ClearPendingReviews
    \/ \E p \in Sessions : CleanupLoad(p)
    \/ \E p \in Sessions : CleanupSave(p)


\* ====================================================================
\* backup.py: check_claim_eligibility
\* ====================================================================
\* optional fields as the dictionaries deliver them
Val(v) == [k |-> "val", v |-> v]
NullField == [k |-> "null", v |-> 0]        \* key present, value None
AbsentField == [k |-> "absent", v |-> 0]    \* key missing
JunkField == [k |-> "junk", v |-> 0]        \* a string that is no number
Str(v) == [k |-> "val", v |-> v]            \* the same for text fields
NullStr == [k |-> "null", v |-> ""]
AbsentStr == [k |-> "absent", v |-> ""]

\* str.lower() on the status strings the inputs use
Lower(s) ==
    CASE s = "Active" -> "active"
      [] s = "ACTIVE" -> "active"
      [] s = "Expired" -> "expired"
      [] s = "EXPIRED" -> "expired"
      [] s = "Cancelled" -> "cancelled"
      [] s = "Inactive" -> "inactive"
      [] s = "Unknown" -> "unknown"
      [] OTHER -> s

\* ---- datetime.strptime over the date strings of the inputs.
\* A date string is [sep, f]: three number tokens f in the written order,
\* sep the punctuation between them ("d b Y" and "b d, Y" are the layouts
\* with an abbreviated month name, whose month is kept as its number).
DateStr(sep, a, b, c) == [sep |-> sep, f |-> <<a, b, c>>]
JunkDate == [sep |-> "junk", f |-> <<0, 0, 0>>]
NoDate == [sep |-> "", f |-> <<0, 0, 0>>]           \* '' / None / key missing
NonStringDate == [sep |-> "object", f |-> <<0, 0, 0>>]  \* a date object

date_formats ==
    << [sep |-> "-", order |-> "YMD"],      \* %Y-%m-%d
       [sep |-> "-", order |-> "DMY"],      \* %d-%m-%Y
       [sep |-> "-", order |-> "MDY"],      \* %m-%d-%Y
       [sep |-> "/", order |-> "YMD"],      \* %Y/%m/%d
       [sep |-> "/", order |-> "DMY"],      \* %d/%m/%Y
       [sep |-> "/", order |-> "MDY"],      \* %m/%d/%Y
       [sep |-> ".", order |-> "DMY"],      \* %d.%m.%Y
       [sep |-> ".", order |-> "YMD"],      \* %Y.%m.%d
       [sep |-> "d b Y", order |-> "DMY"],  \* %d %b %Y
       [sep |-> "b d, Y", order |-> "MDY"] >>   \* %b %d, %Y

IsLeap(y) == (y % 4 = 0 /\ y % 100 # 0) \/ y % 400 = 0

DaysInMonth(y, m) ==
    IF m = 2 THEN (IF IsLeap(y) THEN 29 ELSE 28)
    ELSE IF m \in {4, 6, 9, 11} THEN 30 ELSE 31

\* <<y, m, d>> when the string parses under the format, <<>> on ValueError
Strptime(s, fmt) ==
    IF s.sep # fmt.sep THEN <<>>
    ELSE LET y == IF fmt.order = "YMD" THEN s.f[1] ELSE s.f[3]
             m == CASE fmt.order = "YMD" -> s.f[2]
                    [] fmt.order = "DMY" -> s.f[2]
                    [] fmt.order = "MDY" -> s.f[1]
             d == CASE fmt.order = "YMD" -> s.f[3]
                    [] fmt.order = "DMY" -> s.f[1]
                    [] fmt.order = "MDY" -> s.f[2]
         IN  IF /\ y \in 1000..9999          \* %Y is four digits
                /\ m \in 1..12
                /\ d \in 1..DaysInMonth(y, m)
             THEN <<y, m, d>>
             ELSE <<>>

DateAfter(a, b) ==
    \/ a[1] > b[1]
    \/ a[1] = b[1] /\ a[2] > b[2]
    \/ a[1] = b[1] /\ a[2] = b[2] /\ a[3] > b[3]

FirstCommonFormat_last(claim_date, expiry) ==
    LET ok(i) == /\ Strptime(claim_date, date_formats[i]) # <<>>
                 /\ Strptime(expiry, date_formats[i]) # <<>>
    IN  IF \E i \in 1..Len(date_formats) : ok(i)
        THEN CHOOSE i \in 1..Len(date_formats) :
                ok(i) /\ \A j \in (i + 1)..Len(date_formats) : ~ok(j)
        ELSE 0

\* index of the first format under which both strings parse, 0 if none
FirstCommonFormat(claim_date, expiry) ==
    LET ok(i) == /\ Strptime(claim_date, date_formats[i]) # <<>>
                 /\ Strptime(expiry, date_formats[i]) # <<>>
    IN  IF \E i \in 1..Len(date_formats) : ok(i)
        THEN CHOOSE i \in 1..Len(date_formats) :
                ok(i) /\ \A j \in 1..(i - 1) : ~ok(j)
        ELSE 0

Max(a, b) == IF a >= b THEN a ELSE b

\* float(v) / int(v) on a dictionary value fetched with .get(key, 0)
NumError(fld) ==
    CASE fld.k = "null" -> "TypeError"
      [] fld.k = "junk" -> "ValueError"
      [] OTHER -> "none"
NumValue(fld) == IF fld.k = "val" THEN fld.v ELSE 0

Raises(e) ==
    [ kind |-> "raises", error |-> e,
      eligibility_decision |-> "none", confidence_score |-> 0,
      reasoning |-> "none", checks_failed |-> <<>>,
      ambiguity_factors |-> <<>>, ambiguity_score |-> 0,
      updated_values |-> <<>>, audited |-> FALSE ]

Result(decision, confidence, reasoning, failed, factors, score, updated, audited) ==
    [ kind |-> "result", error |-> "none",
      eligibility_decision |-> decision, confidence_score |-> confidence,
      reasoning |-> reasoning, checks_failed |-> failed,
      ambiguity_factors |-> factors, ambiguity_score |-> score,
      updated_values |-> updated, audited |-> audited ]

\* lines 431-454: the ambiguity detected on missing or unclear data
InitialAmbiguity(claim_amount, reason, status, expiry, claim_date, policy_limit) ==
    (IF claim_amount = 0
        THEN <<"Missing or zero claim amount">> ELSE <<>>)
    \o (IF reason \in {"missing", "short"}
        THEN <<"Missing or insufficient claim reason">> ELSE <<>>)
    \o (IF status = "" \/ status = "unknown"
        THEN <<"Policy status unclear or missing">> ELSE <<>>)
    \o (IF expiry = NoDate
        THEN <<"Policy expiry date missing">> ELSE <<>>)
    \o (IF claim_date = NoDate
        THEN <<"Claim date missing">> ELSE <<>>)
    \o (IF policy_limit = 0
        THEN <<"Policy limit data unavailable">> ELSE <<>>)

AmbiguityWeight(reason) ==
    CASE reason = "Missing or zero claim amount" -> Pct(20)
      [] reason = "Missing or insufficient claim reason" -> Pct(15)
      [] reason = "Policy status unclear or missing" -> Pct(25)
      [] reason = "Policy expiry date missing" -> Pct(15)
      [] reason = "Claim date missing" -> Pct(10)
      [] reason = "Policy limit data unavailable" -> Pct(20)
      [] reason = "Claim amount borderline" -> Pct(10)
      [] reason = "Unable to parse claim or policy dates" -> Pct(20)
      [] reason = "Date validation error" -> Pct(15)

RECURSIVE SumWeights(_)
SumWeights(reasons) ==
    IF reasons = <<>> THEN 0
    ELSE AmbiguityWeight(Head(reasons)) + SumWeights(Tail(reasons))

\* the limit taken whole, the past claims forgotten
AvailableLimit_ignoring_past(policy_limit, past_claims_amount) == policy_limit

\* lines 457-461: what is left of the limit, never below zero
AvailableLimit(policy_limit, past_claims_amount) ==
    Max(policy_limit - past_claims_amount, 0)

\* the list with its last entry dropped
TerminalStatuses_without_cancelled == {"expired", "inactive", "terminated"}

\* line 510: the statuses that reject at once
TerminalStatuses == {"expired", "inactive", "terminated", "cancelled"}

\* line 505
ActiveStatuses == {"active", "valid", "current"}

\* lines 463-468: utilisation within 90..110 percent of the available limit
Borderline(claim_amount, available_limit) ==
    /\ claim_amount > 0
    /\ available_limit > 0
    /\ 90 * available_limit <= 100 * claim_amount
    /\ 100 * claim_amount <= 110 * available_limit

\* lines 568-640: outcome of the date check,
\* "skipped" | "passed" | "rejected" | "unparsed" | "error"
DateCheck(claim_date, expiry) ==
    IF claim_date = NoDate \/ expiry = NoDate THEN "skipped"
    ELSE IF claim_date = NonStringDate THEN "error"
    ELSE IF expiry = NonStringDate
         THEN IF \E i \in 1..Len(date_formats) :
                    Strptime(claim_date, date_formats[i]) # <<>>
              THEN "error" ELSE "unparsed"
    ELSE LET i == FirstCommonFormat(claim_date, expiry) IN
         IF i = 0 THEN "unparsed"
         ELSE IF DateAfter(Strptime(claim_date, date_formats[i]),
                           Strptime(expiry, date_formats[i]))
              THEN "rejected" ELSE "passed"

\* lines 642-717: does the exclusion analysis run to its end
ExclusionRan(reason, exclusions, ai) ==
    /\ reason # "missing"
    /\ exclusions
    /\ ai.client = "ok"

\* the difference to 60 taken whole
ExclusionAmbiguity_not_halved(ai) ==
    LET ai_confidence == IF ai.confidence.k = "val"
                         THEN ai.confidence.v ELSE 50
    IN  IF ai_confidence < 60 THEN Pct(60 - ai_confidence) ELSE 0

\* lines 689-693, in quarter points: (60 - ai_confidence) / 2
ExclusionAmbiguity(ai) ==
    LET ai_confidence == IF ai.confidence.k = "val"
                         THEN ai.confidence.v ELSE 50
    IN  IF ai_confidence < 60 THEN Pct(60 - ai_confidence) \div 2 ELSE 0

\* the middle tier left out
RejectionConfidence_two_tiers(ambiguity_score) ==
    IF ambiguity_score >= Pct(50)
    THEN Max(Pct(40) - (ambiguity_score - Pct(50)) \div 2, Pct(20))
    ELSE Max(Pct(90) - ambiguity_score, Pct(75))

\* lines 808-819: confidence of a rejection that did not return early
RejectionConfidence(ambiguity_score) ==
    IF ambiguity_score >= Pct(50)
    THEN Max(Pct(40) - (ambiguity_score - Pct(50)) \div 2, Pct(20))
    ELSE IF ambiguity_score >= Pct(30)
    THEN Pct(50) + (Pct(50) - ambiguity_score)
    ELSE Max(Pct(90) - ambiguity_score, Pct(75))

\* line 728
EligibleConfidence_without_floor(ambiguity_score) == Pct(95) - ambiguity_score

EligibleConfidence(ambiguity_score) == Max(Pct(95) - ambiguity_score, Pct(30))

\* the failed-check labels, as their words
LimitExceeded == <<"Claim", "amount", "exceeded", "available", "limit">>
NotActive == <<"Policy", "is", "not", "active">>
MaxClaims == <<"Maximum", "claim", "count", "exceeded">>
DateAfterExpiry == <<"Claim", "date", "after", "policy", "expiry">>
ExclusionMatch == <<"Claim", "reason", "matches", "policy", "exclusion">>

\* x is the argument triple: validation_result (its shape and the policy
\* details in it), extracted_data['claim_info'], the reply of the exclusion
\* model, and whether get_audit_agent_instance() yields an agent
check_claim_eligibility(x) ==
    IF x.validation_result = "none" \/ x.claim_info = "absent"
    THEN Result("ERROR", 0, "Missing policy or claim information", <<>>,
                <<>>, 0, <<>>, FALSE)
    ELSE IF x.validation_result = "validation_null"
    THEN Raises("AttributeError")       \* None.get('details', {})
    ELSE IF x.validation_result = "details_null"
    THEN Raises("AttributeError")       \* policy_details.get(...) on None
    ELSE IF NumError(x.policy_limit) # "none"
    THEN Raises(NumError(x.policy_limit))
    ELSE IF NumError(x.past_claims_amount) # "none"
    THEN Raises(NumError(x.past_claims_amount))
    ELSE IF NumError(x.claim_history_count) # "none"
    THEN Raises(NumError(x.claim_history_count))
    ELSE IF x.policy_status.k = "null"
    THEN Raises("AttributeError")       \* None.lower()
    ELSE IF x.claim_amount.k = "junk"
    THEN Raises("ValueError")
    ELSE
    LET policy_limit == NumValue(x.policy_limit)
        past_claims_amount == NumValue(x.past_claims_amount)
        claim_history_count == NumValue(x.claim_history_count)
        policy_status == IF x.policy_status.k = "val"
                         THEN Lower(x.policy_status.v) ELSE ""
        claim_amount == NumValue(x.claim_amount)
        reasons0 == InitialAmbiguity(claim_amount, x.reason_for_claim,
                                     policy_status, x.policy_expiry_date,
                                     x.claim_date, policy_limit)
        available_limit == AvailableLimit(policy_limit, past_claims_amount)
        reasons1 == IF Borderline(claim_amount, available_limit)
                    THEN Append(reasons0, "Claim amount borderline")
                    ELSE reasons0
    IN
    \* CHECK 1
    IF claim_amount > available_limit
    THEN Result("NOT ELIGIBLE", Pct(95), "limit", <<LimitExceeded>>, <<>>,
                SumWeights(reasons1), <<>>, FALSE)
    ELSE
    \* CHECK 2
    LET failed2 == IF policy_status \notin ActiveStatuses
                   THEN <<NotActive>> ELSE <<>>
    IN
    IF policy_status \in TerminalStatuses
    THEN Result("NOT ELIGIBLE", Pct(100), "status", failed2, <<>>,
                SumWeights(reasons1), <<>>, FALSE)
    ELSE
    \* CHECK 3
    IF claim_history_count >= 4
    THEN Result("NOT ELIGIBLE", Pct(95), "count",
                Append(failed2, MaxClaims), <<>>,
                SumWeights(reasons1), <<>>, FALSE)
    ELSE
    \* CHECK 4
    LET dates == DateCheck(x.claim_date, x.policy_expiry_date)
        reasons4 == CASE dates = "unparsed" ->
                           Append(reasons1,
                                  "Unable to parse claim or policy dates")
                      [] dates = "error" ->
                           Append(reasons1, "Date validation error")
                      [] OTHER -> reasons1
    IN
    IF dates = "rejected"
    THEN Result("NOT ELIGIBLE", Pct(95), "date",
                Append(failed2, DateAfterExpiry), <<>>,
                SumWeights(reasons1), <<>>, FALSE)
    ELSE
    \* CHECK 5
    LET ran == ExclusionRan(x.reason_for_claim, x.exclusions, x.ai)
        low == ran /\ ExclusionAmbiguity(x.ai) > 0
        reasons5 == IF low
                    THEN Append(reasons4, "AI exclusion analysis has low confidence")
                    ELSE reasons4
        ambiguity_score == SumWeights(reasons4)
                           + (IF low THEN ExclusionAmbiguity(x.ai) ELSE 0)
        checks_failed == IF ran /\ x.ai.is_excluded
                         THEN Append(failed2, ExclusionMatch) ELSE failed2
    IN
    IF Len(checks_failed) = 0
    THEN Result("ELIGIBLE", EligibleConfidence(ambiguity_score),
                IF ambiguity_score > 0 THEN "passed with ambiguity"
                ELSE "passed",
                checks_failed, reasons5, ambiguity_score,
                <<past_claims_amount + claim_amount, claim_history_count + 1>>,
                x.audit_agent)
    ELSE Result("NOT ELIGIBLE", RejectionConfidence(ambiguity_score),
                "failed checks", checks_failed, reasons5, ambiguity_score,
                <<>>, x.audit_agent)

\* the exclusion model asked before any check has run
ExclusionRequests_before_checks(x) ==
    IF x.reason_for_claim # "missing" /\ x.exclusions /\ x.ai.client # "none"
    THEN 1 ELSE 0

\* lines 646-687: the requests one call sends to the exclusion model: one,
\* when the call gets past the four returns of checks 1 to 4 with a claim
\* reason, an exclusions text and a client
ExclusionRequests(x) ==
    LET r == check_claim_eligibility(x)
    IN  IF /\ r.kind = "result"
           /\ r.reasoning \in {"passed", "passed with ambiguity",
                               "failed checks"}
           /\ x.reason_for_claim # "missing"
           /\ x.exclusions
           /\ x.ai.client # "none"
        THEN 1 ELSE 0

\* ---------------------------------------------------- evaluator inputs
BaseInput ==
    [ validation_result |-> "details", claim_info |-> "present",
      policy_limit |-> Val(10000), past_claims_amount |-> Val(2000),
      claim_history_count |-> Val(1), policy_status |-> Str("active"),
      policy_expiry_date |-> DateStr("-", 2024, 12, 31),
      claim_date |-> DateStr("-", 2024, 11, 14),
      exclusions |-> TRUE, reason_for_claim |-> "ok",
      claim_amount |-> Val(5000),
      ai |-> [client |-> "ok", is_excluded |-> FALSE, confidence |-> Val(85)],
      audit_agent |-> TRUE ]

AIReplies ==
    { [client |-> "none", is_excluded |-> FALSE, confidence |-> AbsentField],
      [client |-> "error", is_excluded |-> FALSE, confidence |-> AbsentField],
      [client |-> "ok", is_excluded |-> TRUE, confidence |-> Val(85)],
      [client |-> "ok", is_excluded |-> TRUE, confidence |-> Val(40)],
      [client |-> "ok", is_excluded |-> FALSE, confidence |-> Val(85)],
      [client |-> "ok", is_excluded |-> FALSE, confidence |-> AbsentField],
      [client |-> "ok", is_excluded |-> FALSE, confidence |-> Val(0)] }

FullInputs ==
    [ validation_result : {"details"}, claim_info : {"present"},
      policy_limit : {AbsentField, NullField, Val(2000), Val(10000)},
      past_claims_amount : {Val(0), Val(8000), Val(12000)},
      claim_history_count : {Val(1), Val(4)},
      policy_status : {Str("active"), Str("Expired"), Str("cancelled"),
                       Str("unknown"), Str("suspended"), AbsentStr,
                       NullStr},
      policy_expiry_date : {NoDate, DateStr("-", 2024, 11, 20),
                            DateStr("-", 2, 1, 2024)},
      claim_date : {NoDate, DateStr("-", 2024, 11, 14),
                    DateStr("-", 14, 11, 2024), DateStr("-", 2024, 11, 25),
                    DateStr("-", 1, 2, 2024)},
      exclusions : BOOLEAN, reason_for_claim : {"missing", "short", "ok"},
      claim_amount : {AbsentField, Val(0), Val(1900), Val(5000), JunkField},
      ai : AIReplies,
      audit_agent : {TRUE} ]

\* the inputs that fail before any field is read, malformed numbers, other
\* date layouts and a missing audit agent, each on the base claim
EdgeInputs ==
    { [BaseInput EXCEPT !.validation_result = v] :
        v \in {"none", "validation_null", "details_null"} }
    \cup { [BaseInput EXCEPT !.claim_info = "absent"] }
    \cup { [BaseInput EXCEPT !.validation_result = "none",
                             !.claim_info = "absent"] }
    \cup { [BaseInput EXCEPT !.past_claims_amount = f] :
             f \in {NullField, JunkField, AbsentField, Val(2000)} }
    \cup { [BaseInput EXCEPT !.claim_history_count = f] :
             f \in {NullField, JunkField, AbsentField, Val(3)} }
    \cup { [BaseInput EXCEPT !.policy_limit = JunkField] }
    \cup { [BaseInput EXCEPT !.claim_amount = f] :
             f \in {NullField, Val(0), Val(7600), Val(8000), Val(8001)} }
    \cup { [BaseInput EXCEPT !.policy_status = Str(st)] :
             st \in {"ACTIVE", "valid", "current", "inactive", "Inactive",
                     "terminated", "EXPIRED", "Unknown", ""} }
    \cup { [BaseInput EXCEPT !.claim_date = c, !.policy_expiry_date = e,
                             !.audit_agent = a] :
             c \in {DateStr("/", 14, 11, 2024), DateStr("/", 11, 14, 2024),
                    DateStr(".", 14, 11, 2024), DateStr("d b Y", 14, 11, 2024),
                    DateStr("b d, Y", 11, 14, 2024), DateStr("-", 29, 2, 2023),
                    DateStr("-", 2024, 11, 14), JunkDate, NonStringDate},
             e \in {DateStr("/", 20, 11, 2024), DateStr("/", 11, 20, 2024),
                    DateStr(".", 1, 11, 2024), DateStr("d b Y", 1, 12, 2024),
                    DateStr("b d, Y", 11, 1, 2024), DateStr("-", 2024, 11, 20),
                    JunkDate, NonStringDate},
             a \in BOOLEAN }
    \cup { [BaseInput EXCEPT !.ai = [client |-> "ok", is_excluded |-> e,
                                     confidence |-> Val(c)]] :
             e \in BOOLEAN, c \in {1, 59, 60, 100} }

EvalInputs == FullInputs \cup EdgeInputs

NotRun == [Raises("none") EXCEPT !.kind = "none"]

IdleEval ==
    /\ ev_in = BaseInput
    /\ ev_out = NotRun
    /\ ai_calls = 0

InitEval ==
    /\ ev_in \in EvalInputs
    /\ ev_out = NotRun
    /\ ai_calls = 0

\* one call of check_claim_eligibility
Evaluate ==
    /\ ev_out = NotRun
    /\ ev_out' = check_claim_eligibility(ev_in)
    /\ ai_calls' = ai_calls + ExclusionRequests(ev_in)
    /\ UNCHANGED <<ev_in, qvars, ovars, svars, rvars, cvars, avars>>


\* ====================================================================
\* The orchestrators: main of backup.py from the policy validation step
\* on, and the executor pipeline of workflow_visualizer_agentic.py.
\* (In backup.py the st.stop() of line 1272 stands one indentation level
\* left of the failure branch it belongs to; the steps are modelled as
\* the run reaches them once the document has been extracted.)
\* ====================================================================
\* the list with a word of the evaluator's labels in it
edge_cases_with_exceeded ==
    { "policy_expiry_ambiguous", "conflicting_information",
      "high_value_claim", "multiple_simultaneous_claims", "exceeded" }

\* human_review_agent.py, needs_review: the labels it looks for
edge_cases ==
    { "policy_expiry_ambiguous", "conflicting_information",
      "high_value_claim", "multiple_simultaneous_claims" }

\* check.lower() on one word of a failed-check label
LowerWord(w) ==
    CASE w = "HIGH_VALUE_CLAIM" -> "high_value_claim"
      [] w = "High_Value_Claim" -> "high_value_claim"
      [] w = "Conflicting_Information" -> "conflicting_information"
      [] OTHER -> w

\* any(edge_case in check.lower() ...): a label holds an edge case when one
\* of its words is one
HasEdgeCase(check) ==
    \E i \in 1..Len(check) : LowerWord(check[i]) \in edge_cases

needs_review_confidence_only(confidence_score, checks_failed) == confidence_score < confidence_threshold

needs_review(confidence_score, checks_failed) ==
    IF confidence_score < confidence_threshold THEN TRUE
    ELSE \E i \in 1..Len(checks_failed) : HasEdgeCase(checks_failed[i])

\* what FraudDetectorAgent.detect_fraud hands back: prediction 1, prediction
\* 0, or a failure (endpoint unreachable, bad reply), which carries no flag
NoFraudAnalysis == [ran |-> FALSE, success |-> FALSE, is_fraud |-> FALSE]
FraudOutcomes ==
    { [ran |-> TRUE, success |-> TRUE, is_fraud |-> TRUE],
      [ran |-> TRUE, success |-> TRUE, is_fraud |-> FALSE],
      [ran |-> TRUE, success |-> FALSE, is_fraud |-> FALSE] }

\* backup.py validate_policy: process_claim_document's result, but None when
\* the validator is off, and None when the audit call inside the try block
\* dereferences a missing 'validation' or 'details' (caught at line 393)
validate_policy(x) ==
    IF x.validation_result = "none" THEN "none"
    ELSE IF x.audit_agent
            /\ x.validation_result \in {"validation_null", "details_null"}
         THEN "none"
         ELSE x.validation_result

EmptySession ==
    [ needs_human_review |-> FALSE, fraud_claim_for_review |-> FALSE,
      awaiting_human_review |-> FALSE, rejected_claim_for_review |-> FALSE,
      fraud_detected |-> FALSE, processing_completed |-> FALSE ]

EmptyData ==
    [ needs_human_review |-> FALSE, fraud_detected |-> FALSE,
      communication |-> "none" ]

\* the session state left as it is
FraudReviewState_not_stored(ss, fraud) == ss

\* backup.py lines 2258-2281: the fraud entries of the session state
FraudReviewState(ss, fraud) ==
    IF fraud.ran /\ fraud.success /\ fraud.is_fraud
    THEN [ss EXCEPT !.fraud_claim_for_review = TRUE,
                    !.awaiting_human_review = TRUE]
    ELSE ss

\* workflow_visualizer_agentic.py lines 399-401
FraudFlags(d, fraud) ==
    IF fraud.is_fraud
    THEN [d EXCEPT !.needs_human_review = TRUE, !.fraud_detected = TRUE]
    ELSE d

\* the reply of the eligibility model of the agentic pipeline: JSON with a
\* decision and a confidence, or text that json.loads rejects
LLMReplies ==
    { [parsed |-> TRUE, decision |-> "ELIGIBLE", confidence |-> Pct(95)],
      [parsed |-> TRUE, decision |-> "ELIGIBLE", confidence |-> Pct(30)],
      [parsed |-> TRUE, decision |-> "NOT_ELIGIBLE", confidence |-> Pct(90)],
      [parsed |-> FALSE, decision |-> "none", confidence |-> 0] }

\* lines 339-346 of analyze_eligibility
ParseReply(reply) ==
    IF reply.parsed
    THEN Result(reply.decision, reply.confidence, "llm", <<>>, <<>>, 0,
                <<>>, FALSE)
    ELSE Result("ELIGIBLE", Pct(70), "llm", <<>>, <<>>, 0, <<>>, FALSE)

\* the claims the orchestrators are run on
OrchInputs ==
    { [i EXCEPT !.audit_agent = a] :
        a \in BOOLEAN,
        i \in { BaseInput,
                [BaseInput EXCEPT !.claim_amount = Val(0),
                                  !.reason_for_claim = "missing",
                                  !.claim_date = NoDate,
                                  !.policy_expiry_date = NoDate],
                [BaseInput EXCEPT !.past_claims_amount = Val(8000)],
                [BaseInput EXCEPT !.policy_status = Str("Expired")],
                [BaseInput EXCEPT !.policy_status = Str("unknown")],
                [BaseInput EXCEPT !.claim_amount = NullField],
                [BaseInput EXCEPT !.claim_info = "absent"],
                [BaseInput EXCEPT !.validation_result = "none"],
                [BaseInput EXCEPT !.validation_result = "validation_null"],
                [BaseInput EXCEPT !.validation_result = "details_null"] } }

IdleOrch ==
    /\ orchestrator = "none"
    /\ o_pc = "idle"
    /\ o_in = BaseInput
    /\ validation_result = "none"
    /\ eligibility_analysis = NotRun
    /\ review_needed = FALSE
    /\ fraud_analysis = NoFraudAnalysis
    /\ data = EmptyData
    /\ session_state = EmptySession
    /\ steps_run = <<>>
    /\ audit_trail = <<>>

InitOrch ==
    /\ orchestrator \in {"backup", "agentic"}
    /\ o_pc = "validate"
    /\ o_in \in OrchInputs
    /\ validation_result = "none"
    /\ eligibility_analysis = NotRun
    /\ review_needed = FALSE
    /\ fraud_analysis = NoFraudAnalysis
    /\ data = EmptyData
    /\ session_state = EmptySession
    /\ steps_run = <<>>
    /\ audit_trail = <<>>

\* ------------------------------------------------------- backup.py main
\* lines 1507-1554: validate_policy, then validation_result.get(...), which
\* raises AttributeError on None and ends the run
ValidatePolicy ==
    /\ orchestrator = "backup"
    /\ o_pc = "validate"
    /\ validation_result' = validate_policy(o_in)
    /\ steps_run' = Append(steps_run, "policy_validation")
    /\ audit_trail' = IF o_in.audit_agent /\ o_in.validation_result = "details"
                      THEN Append(audit_trail, "DatabricksAgent")
                      ELSE audit_trail
    /\ o_pc' = IF validate_policy(o_in) = "none" THEN "crashed"
               ELSE "eligibility"
    /\ UNCHANGED <<orchestrator, o_in, eligibility_analysis, review_needed,
                   fraud_analysis, data, session_state>>
    /\ UNCHANGED <<qvars, evars, svars, rvars, cvars, avars>>

\* lines 1636-1651: check_claim_eligibility, then needs_review on its
\* confidence and failed checks; an exception of the evaluator ends the run
CheckEligibility ==
    /\ orchestrator = "backup"
    /\ o_pc = "eligibility"
    /\ LET r == check_claim_eligibility(
                    [o_in EXCEPT !.validation_result = validation_result])
       IN  /\ eligibility_analysis' = r
           /\ audit_trail' = IF r.kind = "result" /\ r.audited
                             THEN Append(audit_trail, "EligibilityAgent")
                             ELSE audit_trail
           /\ IF r.kind = "raises"
              THEN /\ o_pc' = "crashed"
                   /\ UNCHANGED <<review_needed, steps_run>>
              ELSE /\ review_needed' = needs_review(r.confidence_score,
                                                    r.checks_failed)
                   /\ steps_run' = Append(steps_run, "eligibility")
                   /\ o_pc' = IF needs_review(r.confidence_score,
                                              r.checks_failed)
                              THEN "flag" ELSE "fraud"
    /\ UNCHANGED <<orchestrator, o_in, validation_result, fraud_analysis,
                   data, session_state>>
    /\ UNCHANGED <<qvars, evars, svars, rvars, cvars, avars>>

\* lines 1653-1795: flag_for_review (the record is appended to the queue
\* file), the session entry, st.stop()
FlagAndStop ==
    /\ orchestrator = "backup"
    /\ o_pc = "flag"
    /\ queue_file' =
         Append(queue_file,
                NewReviewRecord(now, [policy_number |-> Absent],
                    [eligibility_decision |->
                        eligibility_analysis.eligibility_decision,
                     confidence_score |->
                        eligibility_analysis.confidence_score],
                    "Low AI confidence"))
    /\ session_state' = [session_state EXCEPT !.needs_human_review = TRUE]
    /\ steps_run' = Append(steps_run, "flag_for_review")
    /\ o_pc' = "stopped"
    /\ UNCHANGED <<orchestrator, o_in, validation_result,
                   eligibility_analysis, review_needed, fraud_analysis, data, audit_trail>>
    /\ UNCHANGED <<history_file, audit_store, now, pc, lq, lh, rec, outcome,
                   flagged, nFlag, nSub>>
    /\ UNCHANGED <<evars, svars, rvars, cvars, avars>>

\* lines 1825-2052: the fraud model is called when the decision is ELIGIBLE
\* and skipped otherwise; a failure of the call is shown and passed over
FraudStep ==
    /\ orchestrator = "backup"
    /\ o_pc = "fraud"
    /\ IF eligibility_analysis.eligibility_decision = "ELIGIBLE"
       THEN /\ \E f \in FraudOutcomes :
                 /\ fraud_analysis' = f
                 /\ audit_trail' =
                       IF f.success /\ o_in.audit_agent
                       THEN Append(audit_trail, "FraudDetectionAgent")
                       ELSE audit_trail
            /\ steps_run' = Append(steps_run, "fraud_detection")
       ELSE UNCHANGED <<fraud_analysis, steps_run, audit_trail>>
    /\ o_pc' = "complete"
    /\ UNCHANGED <<orchestrator, o_in, validation_result,
                   eligibility_analysis, review_needed, data, session_state>>
    /\ UNCHANGED <<qvars, evars, svars, rvars, cvars, avars>>

\* lines 2157-2186: the workflow_completion record of the orchestrator
WorkflowCompletion ==
    /\ orchestrator = "backup"
    /\ o_pc = "complete"
    /\ audit_store' =
         IF o_in.audit_agent
         THEN AuditWrite(audit_store, "Orchestrator", "POL1", now,
                         [decision |-> "SUCCESS",
                          review_id |-> ReviewId(now)])
         ELSE audit_store
    /\ n_logged' = IF o_in.audit_agent THEN n_logged + 1 ELSE n_logged
    /\ steps_run' = Append(steps_run, "workflow_completion")
    /\ audit_trail' = IF o_in.audit_agent
                      THEN Append(audit_trail, "OrchestratorAgent")
                      ELSE audit_trail
    /\ o_pc' = "store"
    /\ UNCHANGED <<orchestrator, o_in, validation_result,
                   eligibility_analysis, review_needed, fraud_analysis, data,
                   session_state>>
    /\ UNCHANGED <<queue_file, history_file, now, pc, lq, lh, rec, outcome,
                   flagged, nFlag, nSub>>
    /\ UNCHANGED <<evars, svars, rvars, cvars>>

\* lines 2254-2301: the results are kept in the session state
StoreSessionState ==
    /\ orchestrator = "backup"
    /\ o_pc = "store"
    /\ session_state' =
         [FraudReviewState(session_state, fraud_analysis) EXCEPT
            !.rejected_claim_for_review =
                (eligibility_analysis.eligibility_decision = "NOT ELIGIBLE"),
            !.processing_completed = TRUE]
    /\ o_pc' = "done"
    /\ UNCHANGED <<orchestrator, o_in, validation_result,
                   eligibility_analysis, review_needed, fraud_analysis, data,
                   steps_run, audit_trail>>
    /\ UNCHANGED <<qvars, evars, svars, rvars, cvars, avars>>

\* ------------------------------------- workflow_visualizer_agentic.py
\* PolicyValidatorExecutor.validate_policy: no policy number, a policy the
\* database holds, or one it does not
PolicyValidatorExecutor ==
    /\ orchestrator = "agentic"
    /\ o_pc = "validate"
    /\ validation_result' =
         IF o_in.claim_info = "absent" THEN "no_policy_number"
         ELSE IF o_in.validation_result = "details" THEN "details"
         ELSE "not_found"
    /\ steps_run' = Append(steps_run, "policy_validation")
    /\ o_pc' = "eligibility"
    /\ UNCHANGED <<orchestrator, o_in, eligibility_analysis, review_needed,
                   fraud_analysis, data, session_state, audit_trail>>
    /\ UNCHANGED <<qvars, evars, svars, rvars, cvars, avars>>

\* EligibilityAgentExecutor.analyze_eligibility: the prompt is formatted
\* (a claim amount that is no number makes the format raise, which fails
\* the executor and ends the workflow), the model replies, the reply is
\* parsed or replaced by the default
EligibilityAgentExecutor ==
    /\ orchestrator = "agentic"
    /\ o_pc = "eligibility"
    /\ IF o_in.claim_info = "present" /\ o_in.claim_amount.k \in {"null", "junk"}
       THEN /\ eligibility_analysis' =
                 Raises(IF o_in.claim_amount.k = "null" THEN "TypeError"
                        ELSE "ValueError")
            /\ o_pc' = "record"
            /\ UNCHANGED steps_run
       ELSE /\ \E reply \in LLMReplies :
                 eligibility_analysis' = ParseReply(reply)
            /\ steps_run' = Append(steps_run, "eligibility")
            /\ o_pc' = "fraud"
    /\ UNCHANGED <<orchestrator, o_in, validation_result, review_needed,
                   fraud_analysis, data, session_state, audit_trail>>
    /\ UNCHANGED <<qvars, evars, svars, rvars, cvars, avars>>

\* FraudDetectorExecutor.detect_fraud: runs on whatever the eligibility
\* executor sent
FraudDetectorExecutor ==
    /\ orchestrator = "agentic"
    /\ o_pc = "fraud"
    /\ \E f \in FraudOutcomes :
         /\ fraud_analysis' = f
         /\ data' = FraudFlags(data, f)
    /\ steps_run' = Append(steps_run, "fraud_detection")
    /\ o_pc' = "communication"
    /\ UNCHANGED <<orchestrator, o_in, validation_result,
                   eligibility_analysis, review_needed, session_state, audit_trail>>
    /\ UNCHANGED <<qvars, evars, svars, rvars, cvars, avars>>

\* CommunicationAgentExecutor.generate_communication: the email for the
\* decision of the eligibility analysis
CommunicationAgentExecutor ==
    /\ orchestrator = "agentic"
    /\ o_pc = "communication"
    /\ data' = [data EXCEPT !.communication =
                    eligibility_analysis.eligibility_decision]
    /\ steps_run' = Append(steps_run, "communication")
    /\ o_pc' = "record"
    /\ UNCHANGED <<orchestrator, o_in, validation_result,
                   eligibility_analysis, review_needed, fraud_analysis,
                   session_state, audit_trail>>
    /\ UNCHANGED <<qvars, evars, svars, rvars, cvars, avars>>

\* main, lines 1005-1052: the workflow_completed record and the session
\* state. results is what the event stream delivered: the final dictionary,
\* or nothing (a failed executor, or a run that yields no output event)
RecordResults ==
    /\ orchestrator = "agentic"
    /\ o_pc = "record"
    /\ \E delivered \in BOOLEAN :
         LET results == IF delivered /\ eligibility_analysis.kind = "result"
                        THEN data ELSE EmptyData
         IN  session_state' =
               IF results.fraud_detected
               THEN [session_state EXCEPT !.fraud_detected = TRUE,
                                          !.needs_human_review = TRUE,
                                          !.fraud_claim_for_review = TRUE]
               ELSE [session_state EXCEPT !.processing_completed = TRUE]
    /\ audit_store' =
         IF o_in.audit_agent
         THEN AuditWrite(audit_store, "Orchestrator", "POL1", now,
                         [decision |-> "COMPLETED",
                          review_id |-> ReviewId(now)])
         ELSE audit_store
    /\ n_logged' = IF o_in.audit_agent THEN n_logged + 1 ELSE n_logged
    /\ steps_run' = Append(steps_run, "workflow_completion")
    /\ audit_trail' = IF o_in.audit_agent
                      THEN Append(audit_trail, "OrchestratorAgent")
                      ELSE audit_trail
    /\ o_pc' = "done"
    /\ UNCHANGED <<orchestrator, o_in, validation_result,
                   eligibility_analysis, review_needed, fraud_analysis, data>>
    /\ UNCHANGED <<queue_file, history_file, now, pc, lq, lh, rec, outcome,
                   flagged, nFlag, nSub>>
    /\ UNCHANGED <<evars, svars, rvars, cvars>>

NextOrch ==
    \/ ValidatePolicy
    \/ CheckEligibility
    \/ FlagAndStop
    \/ FraudStep
    \/ WorkflowCompletion
    \/ StoreSessionState
    \/ PolicyValidatorExecutor
    \/ EligibilityAgentExecutor
    \/ FraudDetectorExecutor
    \/ CommunicationAgentExecutor
    \/ RecordResults

\* ====================================================================
\* human_review_agent.py: the queue file as the text json.dump writes and
\* json.load reads, for one process
\* ====================================================================
\* Python values of a payload field
PyInt(v) == [t |-> "int", v |-> v]
PyFloat(v) == [t |-> "float", v |-> v]
PyNone == [t |-> "NoneType", v |-> 0]
PyDecimal(v) == [t |-> "Decimal", v |-> v]      \* pyodbc, DECIMAL(18, 2)

\* json.JSONEncoder on one value: the literal written, or TypeError
JsonDump(x) ==
    CASE x.t = "int" -> [j |-> "integer", v |-> x.v]
      [] x.t = "float" -> [j |-> "fraction", v |-> x.v]
      [] x.t = "NoneType" -> [j |-> "null", v |-> 0]
      [] OTHER -> [j |-> "TypeError", v |-> 0]

\* json.load on one literal
JsonLoad(y) ==
    CASE y.j = "integer" -> PyInt(y.v)
      [] y.j = "fraction" -> PyFloat(y.v)
      [] y.j = "null" -> PyNone

Serializable(r) == JsonDump(r.claim_data.policy_limit).j # "TypeError"

\* the record json.load returns for the text json.dump wrote for r
ReadBack(r) ==
    [r EXCEPT !.claim_data.policy_limit = JsonLoad(JsonDump(@))]

\* the policy limit inside claim_data['validation_result']: the number a
\* test passes, the Decimal the SQL row carries, None for a NULL column
PolicyLimits ==
    { PyInt(10000), PyFloat(10000), PyDecimal(10000), PyNone }

NotListed == [kind |-> "none", records |-> <<>>]

NoStats ==
    [ kind |-> "none", total_reviews |-> 0, pending |-> 0, reviewed |-> 0,
      approved |-> 0, rejected |-> 0, avg_confidence |-> <<0, 1>> ]

IdleStore ==
    /\ disk = "whole"
    /\ passed = <<>>
    /\ listed = NotListed
    /\ raised = "none"
    /\ killed = FALSE
    /\ stats = NoStats

\* flag_for_review as a whole: _load_queue, append, _save_queue. json.dump
\* streams the list into the file opened with 'w': a value it cannot encode
\* raises TypeError after the text before it has been written.
FlagForReview ==
    /\ nFlag < MaxFlags
    /\ nFlag' = nFlag + 1
    /\ \E a \in QueueAnalyses, v \in PolicyLimits :
         LET r == NewReviewRecord(now, [policy_number |-> PolicyNames[nFlag + 1],
                                        policy_limit |-> v], a,
                                  "Low AI confidence")
         IN  IF disk # "whole"
             THEN /\ raised' = "JSONDecodeError"
                  /\ UNCHANGED <<queue_file, disk, passed>>
             ELSE IF Serializable(r)
             THEN /\ queue_file' = Append(queue_file, ReadBack(r))
                  /\ passed' = Append(passed, r)
                  /\ raised' = "none"
                  /\ UNCHANGED disk
             ELSE /\ disk' = "torn"
                  /\ raised' = "TypeError"
                  /\ UNCHANGED <<queue_file, passed>>
    /\ UNCHANGED <<history_file, audit_store, now, pc, lq, lh, rec, outcome,
                   flagged, nSub, listed, killed, stats>>
    /\ UNCHANGED <<evars, ovars, rvars, cvars, avars>>

\* get_pending_reviews: the pending records of the loaded list
GetPendingReviews ==
    /\ IF disk = "whole"
       THEN /\ listed' = [kind |-> "list",
                          records |-> SelectSeq(queue_file,
                                        LAMBDA r : r.status = "pending")]
            /\ raised' = "none"
       ELSE /\ listed' = [kind |-> "JSONDecodeError", records |-> <<>>]
            /\ raised' = "JSONDecodeError"
    /\ UNCHANGED <<qvars, disk, passed, killed, stats>>
    /\ UNCHANGED <<evars, ovars, rvars, cvars, avars>>

\* submit_review_decision as a whole: load, rewrite the first match, save,
\* archive, audit (a failed audit write is swallowed)
SubmitReviewDecision ==
    /\ nSub < MaxSubmits
    /\ nSub' = nSub + 1
    /\ \E id \in 0..MaxClock, d \in Decisions, logged \in BOOLEAN :
         LET i == FirstMatch(queue_file, ReviewId(id)) IN
         IF disk # "whole"
         THEN /\ raised' = "JSONDecodeError"
              /\ UNCHANGED <<queue_file, history_file, audit_store, n_logged>>
         ELSE IF i = 0
         THEN /\ raised' = "ValueError"
              /\ UNCHANGED <<queue_file, history_file, audit_store, n_logged>>
         ELSE LET r == Reviewed(queue_file[i], d, 1, now) IN
              /\ queue_file' = [queue_file EXCEPT ![i] = r]
              /\ history_file' = Append(history_file, r)
              /\ audit_store' =
                    IF logged
                    THEN AuditWrite(audit_store, "HumanReviewAgent",
                                    PolicyNumberOf(r.claim_data), now,
                                    [decision |-> d, review_id |-> ReviewId(id)])
                    ELSE audit_store
              /\ n_logged' = IF logged THEN n_logged + 1 ELSE n_logged
              /\ raised' = "none"
    /\ UNCHANGED <<now, pc, lq, lh, rec, outcome, flagged, nFlag>>
    /\ UNCHANGED <<disk, passed, listed, killed, stats>>
    /\ UNCHANGED <<evars, ovars, rvars, cvars>>

\* the process dies inside _save_queue, after open(file, 'w') has emptied
\* the file and before the close: the file keeps the text flushed so far,
\* some of the leading records and no end of the document
KilledInSaveQueue ==
    /\ ~killed
    /\ disk = "whole"
    /\ killed' = TRUE
    /\ disk' = "torn"
    /\ raised' = "killed"
    /\ \E k \in 0..Len(queue_file) : queue_file' = SubSeq(queue_file, 1, k)
    /\ UNCHANGED <<history_file, audit_store, now, pc, lq, lh, rec, outcome,
                   flagged, nFlag, nSub, passed, listed, stats>>
    /\ UNCHANGED <<evars, ovars, rvars, cvars, avars>>

NextStore ==
    \/ Tick
    \/ FlagForReview
    \/ GetPendingReviews
    \/ SubmitReviewDecision
    \/ KilledInSaveQueue

RECURSIVE SumConfidence(_)
SumConfidence(reviews) ==
    IF reviews = <<>> THEN 0
    ELSE Head(reviews).confidence_score + SumConfidence(Tail(reviews))

\* lines 197-217: the counts over the queue list followed by the history
\* list; avg_confidence is kept as the fraction <<sum, count>>
get_review_statistics(queue, history) ==
    LET all_reviews == queue \o history
        count(P(_)) == Len(SelectSeq(all_reviews, P))
    IN  [ kind |-> "stats",
          total_reviews |-> Len(all_reviews),
          pending |-> count(LAMBDA r : r.status = "pending"),
          reviewed |-> count(LAMBDA r : r.status = "reviewed"),
          approved |-> count(LAMBDA r : r.final_decision = "APPROVE"),
          rejected |-> count(LAMBDA r : r.final_decision = "REJECT"),
          avg_confidence |-> IF all_reviews = <<>> THEN <<0, 1>>
                             ELSE <<SumConfidence(all_reviews),
                                    Len(all_reviews)>> ]

\* one get_review_statistics call
GetReviewStatistics ==
    /\ IF disk = "whole"
       THEN /\ stats' = get_review_statistics(queue_file, history_file)
            /\ raised' = "none"
       ELSE /\ stats' = [NoStats EXCEPT !.kind = "JSONDecodeError"]
            /\ raised' = "JSONDecodeError"
    /\ UNCHANGED <<qvars, disk, passed, listed, killed>>
    /\ UNCHANGED <<evars, ovars, rvars, cvars, avars>>

NextStats ==
    \/ Tick
    \/ FlagForReview
    \/ SubmitReviewDecision
    \/ GetReviewStatistics

\* ====================================================================
\* audit_agent.py: _log_agent_action, the routine behind every log_*
\* wrapper, and the two callers on the decision path
\* ====================================================================
MaxLogs == 3

AuditAgents == {"EligibilityAgent", "FraudDetectionAgent"}
AuditPolicies == {"POL1", "UNKNOWN"}
AuditDecisions == {"ELIGIBLE", "NOT ELIGIBLE"}

\* the routine without its try/except: a failed upload reaches the caller
log_agent_action_unguarded(store, agent, policy, t, event, upload_ok) ==
    [ store |-> IF upload_ok THEN AuditWrite(store, agent, policy, t, event)
                ELSE store,
      returned |-> upload_ok,
      raised |-> IF upload_ok THEN "none" ELSE "AuditWriteError" ]

\* lines 350-393: build the blob name from policy, agent and the second,
\* upload with overwrite=True and return True; any exception is printed
\* and the call returns False
log_agent_action(store, agent, policy, t, event, upload_ok) ==
    [ store |-> IF upload_ok THEN AuditWrite(store, agent, policy, t, event)
                ELSE store,
      returned |-> upload_ok,
      raised |-> "none" ]

\* one log call of some agent
LogAgentAction ==
    /\ n_logged < MaxLogs
    /\ \E agent \in AuditAgents, policy \in AuditPolicies,
          decision \in AuditDecisions, upload_ok \in BOOLEAN :
         LET log == log_agent_action(audit_store, agent, policy, now,
                                     [decision |-> decision, review_id |-> 0],
                                     upload_ok)
         IN  /\ audit_store' = log.store
             /\ n_logged' = IF log.returned THEN n_logged + 1 ELSE n_logged
    /\ UNCHANGED <<queue_file, history_file, now, pc, lq, lh, rec, outcome,
                   flagged, nFlag, nSub>>
    /\ UNCHANGED <<evars, ovars, svars, rvars, cvars>>

NextAudit ==
    \/ Tick
    \/ LogAgentAction

\* the claims whose evaluation is followed through its audit call
DecideInputs ==
    { [i EXCEPT !.audit_agent = a] :
        a \in BOOLEAN,
        i \in { BaseInput,
                [BaseInput EXCEPT !.policy_status = Str("Expired")],
                [BaseInput EXCEPT !.claim_info = "absent"],
                [BaseInput EXCEPT !.claim_amount = NullField] } }

\* check_claim_eligibility with the log call of its two final branches
\* (backup.py lines 773-797 and 844-868): the call is made when
\* get_audit_agent_instance returned an agent, it is not inside a try, and
\* its return value is not looked at
EvaluateAndLog ==
    /\ ev_out = NotRun
    /\ \E upload_ok \in BOOLEAN :
         LET r == check_claim_eligibility(ev_in)
             log == log_agent_action(audit_store, "EligibilityAgent", "POL1",
                                     now,
                                     [decision |-> r.eligibility_decision,
                                      review_id |-> 0],
                                     upload_ok)
         IN  IF r.kind = "result" /\ r.audited
             THEN /\ audit_store' = log.store
                  /\ n_logged' = IF log.returned THEN n_logged + 1
                                 ELSE n_logged
                  /\ ev_out' = IF log.raised = "none" THEN r
                               ELSE Raises(log.raised)
             ELSE /\ ev_out' = r
                  /\ UNCHANGED <<audit_store, n_logged>>
    /\ ai_calls' = ai_calls + ExclusionRequests(ev_in)
    /\ UNCHANGED <<queue_file, history_file, now, pc, lq, lh, rec, outcome,
                   flagged, nFlag, nSub>>
    /\ UNCHANGED <<ev_in, ovars, svars, rvars, cvars>>

InitDecide ==
    /\ ev_in \in DecideInputs
    /\ ev_out = NotRun
    /\ ai_calls = 0

NextDecide ==
    \/ Tick
    \/ EvaluateAndLog
    \/ FlagForReview
    \/ SubmitReviewDecision

\* ====================================================================
\* human_review_agent.py: needs_review on its own
\* ====================================================================
Confidences == 0..Pct(100)

\* failed-check lists: the evaluator's labels and labels naming edge cases
FailedCheckLists ==
    { <<>>,
      <<LimitExceeded>>,
      <<NotActive, MaxClaims>>,
      <<DateAfterExpiry>>,
      <<ExclusionMatch>>,
      << <<"high_value_claim">> >>,
      << <<"HIGH_VALUE_CLAIM">> >>,
      << LimitExceeded, <<"Conflicting_Information">> >>,
      << <<"policy_expiry_ambiguous">> >>,
      << <<"flagged", "multiple_simultaneous_claims">>, NotActive >> }

NoAnswer == [ran |-> FALSE, value |-> FALSE]

IdleReview ==
    /\ nr_in = [confidence_score |-> 0, checks_failed |-> <<>>]
    /\ nr_out = NoAnswer

InitReview ==
    /\ nr_in \in [confidence_score : Confidences,
                  checks_failed : FailedCheckLists]
    /\ nr_out = NoAnswer

\* one call of needs_review
NeedsReview ==
    /\ ~nr_out.ran
    /\ nr_out' = [ran |-> TRUE,
                  value |-> needs_review(nr_in.confidence_score,
                                         nr_in.checks_failed)]
    /\ UNCHANGED <<nr_in, qvars, evars, ovars, svars, cvars, avars>>

\* ====================================================================
\* Azure/scoring.py and ML/scoring.py: the prediction entry of run()
\* Probabilities and thresholds are in hundredths.
\* ====================================================================
Hundredths(n) == n

\* Azure/scoring.py
Azure_get_risk_level(probability, threshold) ==
    IF probability >= threshold THEN "High Risk (Fraud Detected)"
    ELSE IF probability >= threshold - Hundredths(20) THEN "Medium Risk"
    ELSE IF probability >= threshold - Hundredths(40) THEN "Low Risk"
    ELSE "Very Low Risk"

\* predictions = (probabilities >= threshold).astype(int) and the entry
Azure_run(probability, threshold) ==
    [ fraud_prediction |-> IF probability >= threshold THEN 1 ELSE 0,
      fraud_probability |-> probability,
      fraud_risk |-> Azure_get_risk_level(probability, threshold),
      threshold_used |-> threshold ]

\* ML/scoring.py
ML_get_risk_level(prob) ==
    IF prob >= Hundredths(70) THEN "High Risk"
    ELSE IF prob >= Hundredths(50) THEN "Medium Risk"
    ELSE IF prob >= Hundredths(30) THEN "Low Risk"
    ELSE "Very Low Risk"

\* y_pred comes from model.predict, the probability from predict_proba;
\* the entry has no threshold
ML_run(y_pred, prob) ==
    [ fraud_prediction |-> y_pred,
      fraud_probability |-> prob,
      fraud_risk |-> ML_get_risk_level(prob) ]

Probabilities == Hundredths(0)..Hundredths(100)

\* optimal_threshold of the model metadata, 0.5 when it has none
Thresholds == { Hundredths(30), Hundredths(50), Hundredths(65), Hundredths(80) }

ScoreInputs ==
    [script : {"Azure", "ML"}, probability : Probabilities,
     threshold : Thresholds, y_pred : {0, 1}]

NotScored == [fraud_risk |-> "none"]

IdleScore ==
    /\ sc_in = [script |-> "none", probability |-> 0, threshold |-> 0,
                y_pred |-> 0]
    /\ sc_out = NotScored

InitScore ==
    /\ sc_in \in ScoreInputs
    /\ sc_in.script = "Azure" => sc_in.y_pred = 0     \* unused by run()
    \* ML/scoring.py reads no threshold: model.predict cuts at 0.5
    /\ sc_in.script = "ML" => sc_in.threshold = Hundredths(50)
    /\ sc_out = NotScored

\* run() of the deployed scoring script on one row
Score ==
    /\ sc_out.fraud_risk = "none"
    /\ sc_out' = IF sc_in.script = "Azure"
                 THEN Azure_run(sc_in.probability, sc_in.threshold)
                 ELSE ML_run(sc_in.y_pred, sc_in.probability)
    /\ UNCHANGED <<sc_in, qvars, evars, ovars, svars, rvars, avars>>

\* ------------------------------------------------------ specifications
\* one evaluator call on each input
InitSpecEval == InitQueue /\ InitEval /\ IdleOrch
                    /\ IdleStore /\ IdleReview /\ IdleScore
SpecEval == InitSpecEval /\ [][Evaluate]_vars

\* the review queue under concurrent sessions
InitSpecQueue == InitQueue /\ IdleEval /\ IdleOrch
                    /\ IdleStore /\ IdleReview /\ IdleScore
SpecQueue == InitSpecQueue /\ [][NextQueue]_vars

\* the review queue with the repository's scripts that rewrite its file
InitSpecRepo == InitQueue /\ IdleEval /\ IdleOrch
                    /\ IdleStore /\ IdleReview /\ IdleScore
SpecRepo == InitSpecRepo /\ [][NextRepo]_vars

\* one process on the queue file as text, with a kill inside a write
InitSpecStore == InitQueue /\ IdleEval /\ IdleOrch
                    /\ IdleStore /\ IdleReview /\ IdleScore
SpecStore == InitSpecStore /\ [][NextStore]_vars

\* one process that enqueues, resolves and asks for the statistics
InitSpecStats == InitQueue /\ IdleEval /\ IdleOrch
                    /\ IdleStore /\ IdleReview /\ IdleScore
SpecStats == InitSpecStats /\ [][NextStats]_vars

\* log calls of the audit agent, the clock running
InitSpecAudit == InitQueue /\ IdleEval /\ IdleOrch
                    /\ IdleStore /\ IdleReview /\ IdleScore
SpecAudit == InitSpecAudit /\ [][NextAudit]_vars

\* one evaluation and the reviews of one process, each with its audit call
InitSpecDecide == InitQueue /\ InitDecide /\ IdleOrch
                    /\ IdleStore /\ IdleReview /\ IdleScore
SpecDecide == InitSpecDecide /\ [][NextDecide]_vars

\* one needs_review call on each input
InitSpecReview == InitQueue /\ IdleEval /\ IdleOrch
                    /\ IdleStore /\ InitReview /\ IdleScore
SpecReview == InitSpecReview /\ [][NeedsReview]_vars

\* one scoring request on each input
InitSpecScore == InitQueue /\ IdleEval /\ IdleOrch
                    /\ IdleStore /\ IdleReview /\ InitScore
SpecScore == InitSpecScore /\ [][Score]_vars

\* one claim through one of the orchestrators
InitSpecOrch == InitQueue /\ IdleEval /\ InitOrch
                    /\ IdleStore /\ IdleReview /\ IdleScore
SpecOrch == InitSpecOrch /\ [][NextOrch]_vars

\* ====================================================================
\* Properties
\* ====================================================================
\* ---------------------------------------------------------- SpecQueue
\* C1: a submit_review_decision call that finds its record already reviewed
\* fails with AlreadyResolvedError and leaves the record as it was: the
\* queue file is rewritten only for a record found pending.
C1_SecondResolveFails ==
    \A p \in Sessions :
        /\ (pc[p] \in {"sub_saved", "sub_hist_loaded"}
                => rec[p].found = "pending")
        /\ (outcome[p].op = "submit" /\ outcome[p].found = "reviewed"
                => outcome[p].result = "AlreadyResolvedError")

\* C2: of two submit_review_decision calls on one review_id that both found
\* the record pending, at most one returns successfully.
C2_OneConcurrentResolveSucceeds ==
    \A p, q \in Sessions :
        (/\ p # q
         /\ outcome[p].op = "submit" /\ outcome[q].op = "submit"
         /\ outcome[p].review_id = outcome[q].review_id
         /\ outcome[p].found = "pending" /\ outcome[q].found = "pending")
        => ~(outcome[p].result = "ok" /\ outcome[q].result = "ok")

\* C3: every claim whose flag_for_review call has returned has its record
\* in the queue file.
C3_NoEnqueuedRecordLost ==
    \A c \in flagged :
        \E i \in 1..Len(queue_file) :
            queue_file[i].claim_data.policy_number = c

\* C4: no two records of the queue file carry the same review_id.
C4_ReviewIdsUnique ==
    \A i, j \in 1..Len(queue_file) :
        i # j => queue_file[i].review_id # queue_file[j].review_id

\* ----------------------------------------------------------- SpecOrch
FraudFlagSet == fraud_analysis.ran /\ fraud_analysis.success
                    /\ fraud_analysis.is_fraud

EscalationTrue ==
    \/ review_needed
    \/ data.needs_human_review
    \/ session_state.awaiting_human_review

RunEnded == o_pc \in {"done", "stopped", "crashed"}

Occurs(step) == \E i \in 1..Len(steps_run) : steps_run[i] = step

\* C6: once the escalation decision is true for a claim, neither the
\* customer communication nor the workflow-completion record takes effect,
\* and the run ends with the claim in the review queue.
C6_EscalationEnqueuesAndHalts ==
    EscalationTrue =>
        /\ ~Occurs("communication")
        /\ ~Occurs("workflow_completion")
        /\ (RunEnded => Len(queue_file) > 0)

\* C7: the fraud model is called at most once per claim, and only for a
\* claim whose eligibility decision is ELIGIBLE.
C7_FraudOnlyWhenEligible ==
    /\ Cardinality({i \in 1..Len(steps_run) :
                        steps_run[i] = "fraud_detection"}) <= 1
    /\ Occurs("fraud_detection")
          => eligibility_analysis.eligibility_decision = "ELIGIBLE"

MissingData ==
    \/ o_in.claim_info = "absent"
    \/ o_in.validation_result # "details"

\* C8: a claim whose claim or policy data is missing never gets an ELIGIBLE
\* or NOT ELIGIBLE decision, and its run ends with an ERROR result and the
\* claim in the review queue.
C8_MissingDataIsErrorAndEscalated ==
    MissingData =>
        /\ eligibility_analysis.eligibility_decision
              \notin {"ELIGIBLE", "NOT ELIGIBLE", "NOT_ELIGIBLE"}
        /\ (RunEnded =>
              /\ eligibility_analysis.eligibility_decision = "ERROR"
              /\ Len(queue_file) > 0)

\* ----------------------------------------------------------- SpecEval
Returned ==
    /\ ev_out.kind = "result"
    /\ ev_in.validation_result = "details"
    /\ ev_in.claim_info = "present"

StatusIsTerminal ==
    /\ ev_in.policy_status.k = "val"
    /\ Lower(ev_in.policy_status.v)
          \in {"expired", "inactive", "terminated", "cancelled"}

C11_ReviewedIsTerminal ==
    [][\A i \in 1..Len(queue_file) : \A j \in 1..Len(queue_file') :
          (/\ queue_file[i].status = "reviewed"
           /\ queue_file'[j].claim_data = queue_file[i].claim_data)
          => queue_file'[j] = queue_file[i]]_vars

\* ----------------------------------------------------------- SpecRepo
\* C12: no step deletes an enqueued record: every claim with a record in the
\* queue file still has one after the step, and the history file only grows
\* at its end, its earlier entries staying as they were.
C12_RecordsNeverDeleted ==
    [][/\ \A i \in 1..Len(queue_file) : \E j \in 1..Len(queue_file') :
              queue_file'[j].claim_data = queue_file[i].claim_data
       /\ Len(history_file') >= Len(history_file)
       /\ SubSeq(history_file', 1, Len(history_file)) = history_file]_vars

\* ---------------------------------------------------------- SpecStore
Archived(id) == \E i \in 1..Len(history_file) : history_file[i].review_id = id

\* C13: while no process has been killed, every get_pending_reviews call
\* returns a list that holds, for each record flag_for_review has returned
\* and no decision has been submitted for, a record with the same
\* review_id, claim_data and analysis_result.
C13_EnqueuedReadBackEqual ==
    [][(listed' # listed /\ ~killed')
        => \A i \in 1..Len(passed) :
              ~Archived(passed[i].review_id)
              => /\ listed'.kind = "list"
                 /\ \E j \in 1..Len(listed'.records) :
                      /\ listed'.records[j].review_id = passed[i].review_id
                      /\ listed'.records[j].claim_data = passed[i].claim_data
                      /\ listed'.records[j].analysis_result
                            = passed[i].analysis_result]_vars

\* C14: a step in which the process dies inside a queue write leaves the
\* queue file a whole document that holds every record it held before the
\* write began.
C14_KillLeavesStoredRecordsReadable ==
    [][(killed' /\ ~killed /\ Len(queue_file) > 0)
        => /\ disk' = "whole"
           /\ \A i \in 1..Len(queue_file) :
                 /\ i <= Len(queue_file')
                 /\ queue_file'[i] = queue_file[i]]_vars

\* --------------------------------------------------------- SpecReview
EdgeCaseVocabulary ==
    { "policy_expiry_ambiguous", "conflicting_information",
      "high_value_claim", "multiple_simultaneous_claims" }

\* C15: needs_review is true for every confidence below 50, true at 50 and
\* above exactly when some failed-check label holds a word of the edge-case
\* vocabulary (in any letter case), and a true answer stays true for every
\* lower confidence with the same failed checks.
C15_NeedsReviewWithoutFraudFlag ==
    nr_out.ran =>
        LET c == nr_in.confidence_score
            f == nr_in.checks_failed
            matches == \E i \in 1..Len(f) : \E k \in 1..Len(f[i]) :
                          LowerWord(f[i][k]) \in EdgeCaseVocabulary
        IN  /\ c < Pct(50) => nr_out.value
            /\ c >= Pct(50) => (nr_out.value <=> matches)
            /\ nr_out.value =>
                  \A lower \in Confidences :
                      lower <= c => needs_review(lower, f)

\* confidence 75 with the one failed check HIGH_VALUE_CLAIM: review needed
C15_Witness ==
    /\ nr_out.ran
    /\ nr_in.confidence_score = Pct(75)
    /\ nr_in.checks_failed = << <<"HIGH_VALUE_CLAIM">> >>
    /\ nr_out.value

\* ---------------------------------------------------------- SpecScore
\* C16: an entry of Azure/scoring.py has fraud_prediction 1 exactly when the
\* probability reaches the threshold, and the risk level of every entry, of
\* either scoring script, is the band relative to the threshold in effect:
\* High Risk (Fraud Detected) from the threshold, Medium Risk from 0.2
\* below, Low Risk from 0.4 below, Very Low Risk under that.
C16_ThresholdRelativeBands ==
    sc_out.fraud_risk # "none" =>
        LET p == sc_in.probability
            t == sc_in.threshold
        IN  /\ sc_in.script = "Azure"
                  => (sc_out.fraud_prediction = 1 <=> p >= t)
            /\ sc_out.fraud_risk =
                  IF p >= t THEN "High Risk (Fraud Detected)"
                  ELSE IF p >= t - Hundredths(20) THEN "Medium Risk"
                  ELSE IF p >= t - Hundredths(40) THEN "Low Risk"
                  ELSE "Very Low Risk"

\* ------------------------------------------------ SpecEval, continued
\* C17: a call that returns with no failed check returns ELIGIBLE, and an
\* ELIGIBLE result has no failed check, confidence max(95 - ambiguity
\* score, 30) and as updated values the past claims amount plus the claim
\* amount and the claim count plus one; the call leaves its policy and
\* claim data as they were.
C17_EligibleResult ==
    [][ev_out' # ev_out =>
         /\ ev_in' = ev_in
         /\ Returned' =>
               /\ ev_out'.eligibility_decision = "ELIGIBLE"
                     <=> (/\ ev_out'.eligibility_decision # "ERROR"
                          /\ Len(ev_out'.checks_failed) = 0)
               /\ ev_out'.eligibility_decision = "ELIGIBLE" =>
                     /\ ev_out'.confidence_score
                           = Max(Pct(95) - ev_out'.ambiguity_score, Pct(30))
                     /\ ev_out'.updated_values
                           = << NumValue(ev_in.past_claims_amount)
                                    + NumValue(ev_in.claim_amount),
                                NumValue(ev_in.claim_history_count) + 1 >>]_vars

\* limit 10000, past claims 2000, claim 5000, nothing ambiguous: ELIGIBLE
\* at 95 with a new past claims amount of 7000 and a second claim
C17_Witness ==
    /\ ev_in.policy_limit = Val(10000)
    /\ ev_in.past_claims_amount = Val(2000)
    /\ ev_in.claim_amount = Val(5000)
    /\ ev_in.claim_history_count = Val(1)
    /\ ev_out.kind = "result"
    /\ ev_out.eligibility_decision = "ELIGIBLE"
    /\ ev_out.confidence_score = Pct(95)
    /\ ev_out.updated_values = <<7000, 2>>

\* the call got as far as the date check with two date strings
DateCheckReached ==
    /\ Returned
    /\ ev_out.reasoning \notin {"limit", "status", "count"}
    /\ ev_in.claim_date.sep \notin {"", "object"}
    /\ ev_in.policy_expiry_date.sep \notin {"", "object"}

\* C18: when the date check is reached with two date strings, the dates
\* are compared under the first format of the list that parses both: a
\* claim date after the expiry date is rejected with confidence 95, any
\* other pair is not rejected by this check, and when no format parses
\* both the result carries the unparsed-dates ambiguity factor.
C18_DateCheckFirstCommonFormat ==
    DateCheckReached =>
        LET common == { i \in 1..Len(date_formats) :
                          /\ Strptime(ev_in.claim_date, date_formats[i]) # <<>>
                          /\ Strptime(ev_in.policy_expiry_date,
                                      date_formats[i]) # <<>> }
            first == CHOOSE i \in common : \A j \in common : i <= j
            after == /\ common # {}
                     /\ DateAfter(Strptime(ev_in.claim_date, date_formats[first]),
                                  Strptime(ev_in.policy_expiry_date,
                                           date_formats[first]))
            rejected == \E k \in 1..Len(ev_out.checks_failed) :
                            ev_out.checks_failed[k] = DateAfterExpiry
        IN  /\ after => /\ rejected
                        /\ ev_out.eligibility_decision = "NOT ELIGIBLE"
                        /\ ev_out.confidence_score = Pct(95)
            /\ ~after => ~rejected
            /\ common = {} =>
                  \E k \in 1..Len(ev_out.ambiguity_factors) :
                      ev_out.ambiguity_factors[k]
                          = "Unable to parse claim or policy dates"

\* claim date 14-11-2024 against expiry 2024-11-20: no format parses both,
\* the claim is ELIGIBLE at 95 - 20
C18_Witness ==
    /\ DateCheckReached
    /\ ev_in.claim_date = DateStr("-", 14, 11, 2024)
    /\ ev_in.policy_expiry_date = DateStr("-", 2024, 11, 20)
    /\ ev_out.eligibility_decision = "ELIGIBLE"
    /\ ev_out.confidence_score = Pct(75)
    /\ ev_out.ambiguity_factors = <<"Unable to parse claim or policy dates">>

\* C19: a call whose policy or claim data is absent as a whole (no
\* validation result, a lookup that found no policy, no claim information)
\* returns an ERROR result with confidence 0 that names the missing data.
C19_AbsentDataIsError ==
    (/\ ev_out.kind # "none"
     /\ \/ ev_in.validation_result # "details"
        \/ ev_in.claim_info = "absent")
    => /\ ev_out.kind = "result"
       /\ ev_out.eligibility_decision = "ERROR"
       /\ ev_out.confidence_score = 0
       /\ ev_out.reasoning = "Missing policy or claim information"

\* C20: a call that has its policy details and claim information returns
\* a result whatever single fields are missing, null or malformed: it
\* never ends in an exception.
C20_NeverThrowsOnOptionalFields ==
    (/\ ev_out.kind # "none"
     /\ ev_in.validation_result = "details"
     /\ ev_in.claim_info = "present")
    => ev_out.kind = "result"

\* the status, lowered, is blank or 'unknown'
StatusUnknownOrBlank ==
    IF ev_in.policy_status.k = "val"
    THEN Lower(ev_in.policy_status.v) \in {"", "unknown"}
    ELSE ev_in.policy_status.k = "absent"

\* C24: a result returned for a policy whose status is unknown or blank,
\* on a claim that no other check rejects (the only failed check, if any,
\* is the status), is ELIGIBLE with a confidence below 95.
C24_UnknownStatusNotRejected ==
    (/\ Returned
     /\ StatusUnknownOrBlank
     /\ \A k \in 1..Len(ev_out.checks_failed) :
            ev_out.checks_failed[k] = NotActive)
    => /\ ev_out.eligibility_decision = "ELIGIBLE"
       /\ ev_out.confidence_score < Pct(95)

\* the conditions under which checks 1 to 4 reject, from the arguments
OverLimit ==
    NumValue(ev_in.claim_amount) >
        Max(NumValue(ev_in.policy_limit) - NumValue(ev_in.past_claims_amount), 0)

TooManyClaims == NumValue(ev_in.claim_history_count) >= 4

DateRejects ==
    LET common == { i \in 1..Len(date_formats) :
                      /\ Strptime(ev_in.claim_date, date_formats[i]) # <<>>
                      /\ Strptime(ev_in.policy_expiry_date,
                                  date_formats[i]) # <<>> }
        first == CHOOSE i \in common : \A j \in common : i <= j
    IN  /\ common # {}
        /\ DateAfter(Strptime(ev_in.claim_date, date_formats[first]),
                     Strptime(ev_in.policy_expiry_date, date_formats[first]))

ExclusionCheckReached ==
    /\ Returned
    /\ ev_out.reasoning \in {"passed", "passed with ambiguity", "failed checks"}

\* the exclusion model gave an answer
ClassifierAnswered ==
    /\ ev_in.reason_for_claim # "missing"
    /\ ev_in.exclusions
    /\ ev_in.ai.client = "ok"

\* what the exclusion check added to the ambiguity score: the score less
\* the weights of the factors the other checks recorded
ExclusionContribution ==
    ev_out.ambiguity_score
      - SumWeights(SelectSeq(ev_out.ambiguity_factors,
            LAMBDA f : f # "AI exclusion analysis has low confidence"))

\* C27: in a call that reaches the exclusion check, an answer of the
\* exclusion model that matches puts the exclusion label into the failed
\* checks and the result is NOT ELIGIBLE, an answer that does not match
\* leaves the label out; an answer with confidence c below 60 (50 when it
\* states none) adds (60 - c) / 2 to the ambiguity score, at most 30, and
\* one with 60 or more adds nothing; without a client, or when the request
\* fails, or without a claim reason or exclusions text, the label is left
\* out and nothing is added.
C27_ExclusionCheck ==
    ExclusionCheckReached =>
        LET excluded == \E k \in 1..Len(ev_out.checks_failed) :
                            ev_out.checks_failed[k] = ExclusionMatch
            c == IF ev_in.ai.confidence.k = "val"
                 THEN ev_in.ai.confidence.v ELSE 50
        IN  /\ ClassifierAnswered =>
                  /\ ev_in.ai.is_excluded =>
                        /\ excluded
                        /\ ev_out.eligibility_decision = "NOT ELIGIBLE"
                  /\ ~ev_in.ai.is_excluded => ~excluded
                  /\ c < 60 => /\ 2 * ExclusionContribution = Pct(60 - c)
                               /\ ExclusionContribution <= Pct(30)
                  /\ c >= 60 => ExclusionContribution = 0
            /\ ~ClassifierAnswered =>
                  /\ ~excluded
                  /\ ExclusionContribution = 0

\* a clean claim on an active policy whose reason the model matches to an
\* exclusion with confidence 40: rejected, 10 points of ambiguity added
C27_Witness ==
    /\ ExclusionCheckReached
    /\ ev_in.policy_status = Str("active")
    /\ ev_in.ai = [client |-> "ok", is_excluded |-> TRUE, confidence |-> Val(40)]
    /\ ev_out.eligibility_decision = "NOT ELIGIBLE"
    /\ ev_out.checks_failed = <<ExclusionMatch>>
    /\ ev_out.ambiguity_score = Pct(10)
    /\ ev_out.confidence_score = Pct(80)

\* a rejection made by the final decision, not by one of the early returns
FallThroughRejection ==
    /\ Returned
    /\ ev_out.eligibility_decision = "NOT ELIGIBLE"
    /\ ev_out.reasoning = "failed checks"

\* the largest ambiguity score the tiers are compared over, in points
MaxAmbiguity == 140

\* C28: a rejection that did not return early has, for its ambiguity score
\* a, the confidence max(40 - (a - 50)/2, 20) when a >= 50, 50 + (50 - a)
\* when 30 <= a < 50 and max(90 - a, 75) when a < 30; and every larger
\* ambiguity score would give, by these tiers, a confidence that is not
\* higher.
C28_TieredRejectionConfidence ==
    FallThroughRejection =>
        LET tier(a) == IF a >= Pct(50)
                       THEN Max(Pct(40) - (a - Pct(50)) \div 2, Pct(20))
                       ELSE IF a >= Pct(30)
                       THEN Pct(50) + (Pct(50) - a)
                       ELSE Max(Pct(90) - a, Pct(75))
        IN  /\ ev_out.ambiguity_score % 2 = 0
            /\ ev_out.confidence_score = tier(ev_out.ambiguity_score)
            /\ \A b \in ev_out.ambiguity_score..Pct(MaxAmbiguity) :
                  tier(b) <= ev_out.confidence_score

\* status unknown (25), a short claim reason (15) and an exclusion match
\* stated with confidence 40 (10): ambiguity 50, rejected at 40
C28_Witness ==
    /\ FallThroughRejection
    /\ ev_in.policy_status = Str("unknown")
    /\ ev_in.reason_for_claim = "short"
    /\ ev_in.ai = [client |-> "ok", is_excluded |-> TRUE, confidence |-> Val(40)]
    /\ ev_out.ambiguity_score = Pct(50)
    /\ ev_out.confidence_score = Pct(40)

\* C29: on every result check_claim_eligibility returns, the ERROR result
\* included, needs_review(confidence_score, checks_failed) is true exactly
\* when the confidence is below 50: none of the labels in checks_failed
\* holds an edge case.
C29_NeedsReviewIffLowConfidence ==
    ev_out.kind = "result" =>
        /\ needs_review(ev_out.confidence_score, ev_out.checks_failed)
              <=> ev_out.confidence_score < Pct(50)
        /\ \A k \in 1..Len(ev_out.checks_failed) :
              ~HasEdgeCase(ev_out.checks_failed[k])

\* a claim above the available limit on a policy with four claims: two
\* ways to fail, rejected at 95 on the limit, and no review asked for
C29_Witness ==
    /\ ev_out.kind = "result"
    /\ ev_in.claim_history_count = Val(4)
    /\ ev_out.checks_failed = <<LimitExceeded>>
    /\ ev_out.confidence_score = Pct(95)
    /\ ~needs_review(ev_out.confidence_score, ev_out.checks_failed)

\* ----------------------------------------------------------- SpecStats
\* C30: the statistics a get_review_statistics call returns, at the time
\* of the call, count every review once: total_reviews is the number of records enqueued, reviewed
\* the number of records of the queue that have been resolved, and approved
\* plus rejected equals reviewed.
C30_StatisticsCountEachReviewOnce ==
    [][(stats' # stats /\ stats'.kind = "stats") =>
         /\ stats'.total_reviews = Len(passed)
         /\ stats'.reviewed
               = Cardinality({ i \in 1..Len(queue_file) :
                                 queue_file[i].status = "reviewed" })
         /\ stats'.approved + stats'.rejected = stats'.reviewed]_vars

\* ------------------------------------------------- SpecOrch, continued
\* the agent under whose name a step of the run logs
StepAgent(step) ==
    CASE step = "policy_validation" -> "DatabricksAgent"
      [] step = "eligibility" -> "EligibilityAgent"
      [] step = "flag_for_review" -> "HumanReviewAgent"
      [] step = "fraud_detection" -> "FraudDetectionAgent"
      [] step = "workflow_completion" -> "OrchestratorAgent"
      [] step = "communication" -> "CommunicationAgent"

FraudScoreMissing == fraud_analysis.ran /\ ~fraud_analysis.success

C22_AuditLogAppendOnly ==
    [][/\ \A b \in audit_store : b \in audit_store'
       /\ Cardinality(audit_store') = n_logged']_vars

\* what the evaluation returns when there is no audit agent at all
ResultWithoutAudit == check_claim_eligibility([ev_in EXCEPT !.audit_agent = FALSE])

\* a queue call that resolved a review: one record of the queue became
\* reviewed and that record was appended to the history
ResolveTookEffect ==
    \E i \in 1..Len(queue_file), d \in Decisions :
        LET r == Reviewed(queue_file[i], d, 1, now)
        IN  /\ queue_file' = [queue_file EXCEPT ![i] = r]
            /\ history_file' = Append(history_file, r)

====
